---- MODULE Spec2Model ----
(***************************************************************************)
(* pipcs: the configuration tree of src/pipcs/pipcs.py (Config, Choices,   *)
(* Condition, Comparison) as a state machine over a heap of Config         *)
(* objects.  A Config is a Python dict, so two trees can hold the SAME     *)
(* section object; the heap keeps that aliasing visible.                   *)
(***************************************************************************)
EXTENDS Integers, Sequences, FiniteSets, TLC

(***************************************************************************)
(* Bounds of the model.                                                    *)
(***************************************************************************)
\* number of operations that build or change a tree in one behaviour
MaxOps == 2

\* the choice list used throughout the tests and docstrings: Choices([1, 2, 3])
C == {1, 2, 3}
\* the value the tests and docstrings use as a non-member of the choice list
Invalid == 4
\* the plain values of the model
Values == C \cup {Invalid}

(***************************************************************************)
(* Values a dict entry can hold.                                           *)
(***************************************************************************)
\* class required: the sentinel, compared by identity
required == [t |-> "required"]
\* any plain Python value (the model uses integers)
Plain(n) == [t |-> "plain", v |-> n]
\* a reference to a Config object on the heap
ConfigRef(a) == [t |-> "Config", addr |-> a]
\* Config._name of the anonymous root
None == "None"

(***************************************************************************)
(* Exceptions.                                                             *)
(***************************************************************************)
NoError == "none"
InvalidChoiceError == "InvalidChoiceError"
RequiredError == "RequiredError"
AttributeError == "AttributeError"
KeyError == "KeyError"

(***************************************************************************)
(* Choices and Condition objects.  A Choices object is immutable after     *)
(* construction except for _name, which add_config stamps with the key the *)
(* object is registered under.                                             *)
(***************************************************************************)
Choices_init_unchecked(choices, default) ==
    [err |-> NoError,
     val |-> [t |-> "Choices", choices |-> choices, data |-> default, name |-> ""]]

\* Choices.__init__(choices, default=required); default is a value
Choices_init(choices, default) ==
    IF default # required /\ ~(default.t = "plain" /\ default.v \in choices)
    THEN [err |-> InvalidChoiceError, val |-> required]
    ELSE [err |-> NoError,
          val |-> [t |-> "Choices", choices |-> choices, data |-> default, name |-> ""]]

\* Condition.__init__(data, comp)
Condition_init(data, comp) == [t |-> "Condition", data |-> data, comp |-> comp]

\* isinstance(v, Comparable): Choices is the only Comparable subclass
IsComparable(v) == v.t = "Choices"

(***************************************************************************)
(* dict entries, in insertion order: a sequence of [k, v].                 *)
(***************************************************************************)
Has(items, k) == \E i \in 1..Len(items) : items[i].k = k
Get(items, k) == items[CHOOSE i \in 1..Len(items) : items[i].k = k].v
Put(items, k, v) ==
    IF Has(items, k)
    THEN [i \in 1..Len(items) |-> IF items[i].k = k THEN [k |-> k, v |-> v] ELSE items[i]]
    ELSE Append(items, [k |-> k, v |-> v])
KeysOf(items) == {items[i].k : i \in 1..Len(items)}

(***************************************************************************)
(* Comparison: a lazy predicate over a Config.  The closure of a leaf      *)
(* holds the Choices object it was built from (ch) and the operand.        *)
(***************************************************************************)
Comparable_eq(ch, other) == [op |-> "eq", ch |-> ch, other |-> other]
Comparable_ne(ch, other) == [op |-> "ne", ch |-> ch, other |-> other]
\* a mutant: & builds the disjunction
Comparison_and_as_or(p, q) == [op |-> "or", l |-> p, r |-> q]
\* Comparison.__and__, __or__, __invert__
Comparison_and(p, q) == [op |-> "and", l |-> p, r |-> q]
Comparison_or(p, q) == [op |-> "or", l |-> p, r |-> q]
Comparison_invert(p) == [op |-> "not", l |-> p]

\* a mutant: the stored default is used whatever the config holds
Comparable_get_value_default(ch, config) == ch.data

\* Comparable._get_value(config)
Comparable_get_value(ch, config) ==
    LET value == Get(config.items, ch.name)
    IN IF IsComparable(value) THEN ch.data ELSE value

RECURSIVE Comparison_call(_, _)
\* Comparison.__call__(config): config is the dict the predicate is applied to
Comparison_call(c, config) ==
    CASE c.op = "eq" -> Comparable_get_value(c.ch, config) = Plain(c.other)
      [] c.op = "ne" -> Comparable_get_value(c.ch, config) # Plain(c.other)
      [] c.op = "and" -> Comparison_call(c.l, config) /\ Comparison_call(c.r, config)
      [] c.op = "or" -> Comparison_call(c.l, config) \/ Comparison_call(c.r, config)
      [] c.op = "not" -> ~Comparison_call(c.l, config)

(***************************************************************************)
(* Validation.  TRUE means RequiredError is raised.                        *)
(***************************************************************************)
RECURSIVE check_config(_, _)

\* a mutant: a Condition with required data fails whatever its predicate says
check_value_nopred(h, config, value) ==
    CASE value.t = "Config" -> check_config(h, h[value.addr])
      [] value.t = "Choices" -> value.data = required
      [] value.t = "Condition" -> value.data = required
      [] OTHER -> value = required

\* Config.check_value(key, value) on the Config `config`
check_value(h, config, value) ==
    CASE value.t = "Config" -> check_config(h, h[value.addr])
      [] value.t = "Choices" -> value.data = required
      [] value.t = "Condition" ->
            Comparison_call(value.comp, config) /\ value.data = required
      [] OTHER -> value = required

\* Config.check_config(): the first failing entry raises
check_config(h, config) ==
    \E i \in 1..Len(config.items) : check_value(h, config, config.items[i].v)

(***************************************************************************)
(* Flattening.  The result dict is a function from keys to values; a       *)
(* nested section is flattened to [t |-> "dict", d |-> its dict].          *)
(***************************************************************************)
RECURSIVE to_dict_entries(_, _)

\* a mutant: a Condition entry is emitted whatever its predicate says
to_dict_included_always(config, v) == TRUE

\* whether the loop of to_dict emits the entry (the Condition branch)
to_dict_included(config, v) ==
    v.t = "Condition" => Comparison_call(v.comp, config)

\* the value the loop of to_dict emits for an entry
to_dict_value(h, v) ==
    CASE v.t = "Config" -> [t |-> "dict", d |-> to_dict_entries(h, h[v.addr])]
      [] v.t = "Choices" -> v.data
      [] v.t = "Condition" -> v.data
      [] OTHER -> v

\* the loop of Config.to_dict (the keys _name and __annotations__ are skipped)
to_dict_entries(h, config) ==
    LET emitted == {i \in 1..Len(config.items) :
                        to_dict_included(config, config.items[i].v)}
    IN [k \in {config.items[i].k : i \in emitted} |->
            to_dict_value(h, Get(config.items, k))]

\* Config.to_dict(check)
to_dict(h, config, check) ==
    IF check /\ check_config(h, config)
    THEN [err |-> RequiredError, d |-> <<>>]
    ELSE [err |-> NoError, d |-> to_dict_entries(h, config)]

\* Config.get_value(key, check); __getitem__ and __getattr__ route through it
get_value(h, config, key, check) ==
    IF ~Has(config.items, key) THEN [err |-> KeyError, val |-> required]
    ELSE IF check /\ check_value(h, config, Get(config.items, key))
         THEN [err |-> RequiredError, val |-> required]
         ELSE [err |-> NoError, val |-> Get(config.items, key)]

\* Config.__getattr__(key): a missing key is an AttributeError
Config_getattr(h, config, key) ==
    LET r == get_value(h, config, key, FALSE)
    IN IF r.err = KeyError THEN [err |-> AttributeError, val |-> required] ELSE r

(***************************************************************************)
(* The heap: a sequence of Config objects, each                            *)
(*   [name  |-> the _name entry,                                           *)
(*    ann   |-> the keys of the __annotations__ entry,                     *)
(*    items |-> every other entry, in insertion order].                    *)
(***************************************************************************)
\* Config.__init__(dictionary): a shallow copy of the entries
Config_init(dictionary) ==
    [name |-> dictionary.name, ann |-> dictionary.ann, items |-> dictionary.items]

\* Config(): the empty anonymous root
Config_empty == [name |-> None, ann |-> {}, items |-> <<>>]

\* self[k] = v on the Config at address a
SetItem(h, a, k, v) == [h EXCEPT ![a].items = Put(@, k, v)]

(***************************************************************************)
(* Merge.                                                                  *)
(***************************************************************************)
RECURSIVE update_comparables(_, _, _, _)

\* a mutant: no Comparable entry is collapsed
update_comparables_skip(h, self, other, i) == [heap |-> h, err |-> NoError]

\* Config._update_comparables(other), from item i of other on; self and
\* other are addresses and may be the same object
update_comparables(h, self, other, i) ==
    IF i > Len(h[other].items) THEN [heap |-> h, err |-> NoError]
    ELSE LET k == h[other].items[i].k
             v == h[other].items[i].v
             mine == Get(h[self].items, k)
         IN IF v.t = "Config"
            THEN IF mine.t # "Config" THEN [heap |-> h, err |-> AttributeError]
                 ELSE LET r == update_comparables(h, mine.addr, v.addr, 1)
                      IN IF r.err # NoError THEN r
                         ELSE update_comparables(r.heap, self, other, i + 1)
            ELSE IF IsComparable(mine)
                 THEN IF v.t \in {"Choices", "Condition"}
                      THEN update_comparables(SetItem(h, self, k, v.data), self, other, i + 1)
                      ELSE [heap |-> h, err |-> AttributeError]
                 ELSE update_comparables(h, self, other, i + 1)

\* a mutant: the membership test of the Choices branch is dropped
NotInChoices_never(v, choices) == FALSE

\* `v not in self[k].choices`: list membership compares with ==, and
\* Choices.__eq__ returns a (truthy) Comparison object
NotInChoices(v, choices) ==
    ~(v.t = "Choices" \/ (v.t = "plain" /\ v.v \in choices))

\* a mutant: the incoming value replaces the Condition, predicate included
update_config_condition_plain(v, sv) == v

\* `newdict[k] = Condition(v, self[k].comp)`: sv is the Condition self[k]
update_config_condition(v, sv) == Condition_init(v, sv.comp)

RECURSIVE update_config(_, _, _)
RECURSIVE update_config_loop(_, _, _, _, _)

\* the loop of update_config over other.items(), from item i on; newdict is
\* the dict under construction.  Returns [heap, err, node].
update_config_loop(h, self, oitems, i, newdict) ==
    IF i > Len(oitems) THEN [heap |-> h, err |-> NoError, node |-> newdict]
    ELSE LET k == oitems[i].k
             v == oitems[i].v
             nd == [newdict EXCEPT !.items = Put(@, k, v)]
         IN IF ~Has(h[self].items, k)
            THEN update_config_loop(h, self, oitems, i + 1, nd)
            ELSE LET sv == Get(h[self].items, k)
                 IN CASE sv.t = "Config" ->
                           IF v.t # "Config"
                           THEN [heap |-> h, err |-> AttributeError, node |-> nd]
                           ELSE LET r == update_config(h, sv.addr, h[v.addr])
                                IN IF r.err # NoError
                                   THEN [heap |-> r.heap, err |-> r.err, node |-> nd]
                                   ELSE update_config_loop(r.heap, self, oitems, i + 1,
                                          [nd EXCEPT !.items = Put(@, k, ConfigRef(r.addr))])
                      [] sv.t = "Choices" ->
                           IF NotInChoices(v, sv.choices)
                           THEN [heap |-> h, err |-> InvalidChoiceError, node |-> nd]
                           ELSE update_config_loop(h, self, oitems, i + 1, nd)
                      [] sv.t = "Condition" ->
                           update_config_loop(h, self, oitems, i + 1,
                               [nd EXCEPT !.items = Put(@, k, update_config_condition(v, sv))])
                      [] OTHER -> update_config_loop(h, self, oitems, i + 1, nd)

\* Config.update_config(other): self is an address, other a Config.
\* Returns [heap, err, addr]; the merged Config is allocated at addr.
update_config(h, self, other) ==
    LET newdict == [name |-> other.name,
                    ann |-> h[self].ann \cup other.ann,
                    items |-> Config_init(h[self]).items]
        l == update_config_loop(h, self, other.items, 1, newdict)
    IN IF l.err # NoError THEN [heap |-> l.heap, err |-> l.err, addr |-> 0]
       ELSE LET a == Len(l.heap) + 1
                u == update_comparables(Append(l.heap, l.node), a, self, 1)
            IN [heap |-> u.heap, err |-> u.err, addr |-> a]

(***************************************************************************)
(* Registration.  A class body is a sequence of fields [k, v, ann]: the    *)
(* class attribute k, its value v, and whether the body annotates it.      *)
(***************************************************************************)
\* the dataclass instance built from the fields whose key is in annotations
Dataclass(fields, annotations, name) ==
    LET kept == SelectSeq(fields, LAMBDA f : f.k \in annotations)
    IN [name |-> name, ann |-> annotations,
        items |-> [i \in 1..Len(kept) |-> [k |-> kept[i].k, v |-> kept[i].v]]]

\* v._name = k
StampEntry(e) ==
    IF IsComparable(e.v) THEN [k |-> e.k, v |-> [e.v EXCEPT !.name = e.k]] ELSE e

\* the tail of add_config: every Comparable entry of the section is stamped
\* with its key
Stamp(h, a) ==
    [h EXCEPT ![a].items = [i \in 1..Len(h[a].items) |-> StampEntry(h[a].items[i])]]

\* objects allocated by a call that raised are unreachable afterwards
Unwind(h, hOld) == SubSeq(h, 1, Len(hOld))

\* a mutant: every member of the override class is kept
OverrideAnnotations_all(parentAnn, fields) == {fields[i].k : i \in 1..Len(fields)}

\* the annotation set add_config gives the class of an override
OverrideAnnotations(parentAnn, fields) ==
    {fields[i].k : i \in 1..Len(fields)}
        \cap (parentAnn \cup {fields[i].k : i \in {j \in 1..Len(fields) : fields[j].ann}})

\* a mutant: validation after the merge is skipped
add_config_validate_never(h, config, check) == FALSE

\* `if check: merged_config.check_config()`: TRUE means RequiredError
add_config_validate(h, config, check) == check /\ check_config(h, config)

\* Config.add_config(cls, name, check) on the Config at address self.
\* Returns [heap, err].
add_config(h, self, fields, name, check) ==
    IF Has(h[self].items, name)
    THEN LET parent == Get(h[self].items, name).addr
             annotations == OverrideAnnotations(h[parent].ann, fields)
             datacls == Dataclass(fields, annotations, name)
             m == update_config(h, parent, Config_init(datacls))
         IN IF m.err # NoError THEN [heap |-> Unwind(m.heap, h), err |-> m.err]
            ELSE IF add_config_validate(m.heap, m.heap[m.addr], check)
                 THEN [heap |-> Unwind(m.heap, h), err |-> RequiredError]
                 ELSE [heap |-> Stamp(SetItem(m.heap, self, name, ConfigRef(m.addr)),
                                      m.addr),
                       err |-> NoError]
    ELSE LET annotations == {fields[i].k : i \in {j \in 1..Len(fields) : fields[j].ann}}
             datacls == Config_init(Dataclass(fields, annotations, name))
             a == Len(h) + 1
         IN [heap |-> Stamp(SetItem(Append(h, datacls), self, name, ConfigRef(a)), a),
             err |-> NoError]

(***************************************************************************)
(* Class bodies.  A field expression is a value, or a call Choices(...)    *)
(* that the body evaluates (and that may raise) before the decorator runs. *)
(***************************************************************************)
ChoicesCall(choices, default) == [t |-> "Choices()", choices |-> choices, default |-> default]

Field(k, e, ann) == [k |-> k, v |-> e, ann |-> ann]

\* the value of one field expression: [err, val]
EvalField(e) ==
    IF e.t = "Choices()" THEN Choices_init(e.choices, e.default)
    ELSE [err |-> NoError, val |-> e]

\* the class body, evaluated top to bottom: [err, fields]
EvalBody(body) ==
    IF \E i \in 1..Len(body) : EvalField(body[i].v).err # NoError
    THEN [err |-> EvalField(body[CHOOSE i \in 1..Len(body) :
                     /\ EvalField(body[i].v).err # NoError
                     /\ \A j \in 1..(i - 1) : EvalField(body[j].v).err = NoError].v).err,
          fields |-> <<>>]
    ELSE [err |-> NoError,
          fields |-> [i \in 1..Len(body) |->
                        Field(body[i].k, EvalField(body[i].v).val, body[i].ann)]]

\* the Choices object a predicate of the same class body closes over; its
\* _name is the key add_config stamps it with before any predicate is called
Sibling(k, default) == [Choices_init(C, default).val EXCEPT !.name = k]

(***************************************************************************)
(* The declarations of src/tests/test_config.py.                           *)
(***************************************************************************)
\* no default, a member of the choice list, a non-member
Defaults == {required, Plain(1), Plain(Invalid)}

\* TestChoices.setUp, for every default of variable1
TestChoices(d) ==
    << Field("variable1", ChoicesCall(C, d), TRUE),
       Field("variable2", ChoicesCall(C, Plain(1)), TRUE) >>

\* TestCondition.setUp
TestCondition ==
    LET variable1 == Sibling("variable1", Plain(3))
        variable2 == Sibling("variable2", Plain(1))
        p == Comparable_eq(variable1, 3)
        q == Comparable_eq(variable2, 1)
    IN << Field("variable1", ChoicesCall(C, Plain(3)), TRUE),
          Field("variable2", ChoicesCall(C, Plain(1)), TRUE),
          Field("conditional_variable1",
                Condition_init(required, Comparable_eq(variable1, 1)), TRUE),
          Field("conditional_variable2",
                Condition_init(Plain(1), Comparable_eq(variable1, 2)), TRUE),
          Field("conditional_variable3", Condition_init(required, p), TRUE),
          Field("conditional_variable4", Condition_init(Plain(1), Comparison_and(p, q)), TRUE),
          Field("conditional_variable5", Condition_init(Plain(1), Comparison_or(p, q)), TRUE),
          Field("conditional_variable6", Condition_init(Plain(1), Comparison_invert(p)), TRUE) >>

\* TestRequired.setUp
TestRequired ==
    << Field("variable", Plain(2), TRUE),
       Field("required_variable", required, TRUE) >>

\* TestConfig.setUp
TestConfig ==
    << Field("variable", Plain(1), TRUE),
       Field("choice_variable", ChoicesCall(C, Plain(1)), TRUE) >>

\* the second tree of TestConfig.test_update
TestUpdate ==
    << Field("variable", Plain(2), TRUE),
       Field("choice_variable2", ChoicesCall(C, required), TRUE) >>

\* a sub-section registered on a section, as in `@config.test('sub')`
SubSection(d) == << Field("choice_variable", ChoicesCall(C, d), TRUE) >>

\* TestCondition.setUp cut down to variable1 and one Condition whose data is
\* required: conditional_variable1 (a = 1) or conditional_variable3 (a = 3)
TestConditionRequired(a) ==
    << Field("variable1", ChoicesCall(C, Plain(3)), TRUE),
       Field("conditional_variable", 
             Condition_init(required, Comparable_eq(Sibling("variable1", Plain(3)), a)),
             TRUE) >>

\* the declarations a root section is registered from
RootClasses ==
    {TestChoices(d) : d \in {required, Plain(Invalid)}}
        \cup {TestConditionRequired(1), TestConditionRequired(3), TestRequired, TestConfig}

SubClasses == {SubSection(d) : d \in Defaults}

(***************************************************************************)
(* The class bodies of overrides: a field names a key of the section or a *)
(* new key, with or without an annotation.                                 *)
(***************************************************************************)
OverrideValues == {required} \cup {Plain(n) : n \in Values}

NewKeys == {"user_variable"}

\* an annotation on a key the section already annotates changes nothing
OverrideFields(section) ==
    {Field(k, v, a) : k \in KeysOf(section.items) \cup NewKeys,
                      v \in OverrideValues, a \in BOOLEAN}
        \ {f \in [k : section.ann, v : OverrideValues, ann : {TRUE}] : TRUE}

\* the class bodies of an override: `pass`, or one field
Overrides(section) == {<<>>} \cup {<<f>> : f \in OverrideFields(section)}

(***************************************************************************)
(* State.  The program holds two trees, as the tests do: `config`, the     *)
(* base, and `user`, which it rebinds to each tree it derives or merges.   *)
(*   heap    the Config objects                                            *)
(*   trees   the address of the root of config and of user (0: unbound)    *)
(*   err     the exception the last operation raised                       *)
(*   ret     what the last operation returned                              *)
(*   last    the last operation and its arguments                          *)
(*   pre     the heap before the last operation                            *)
(*   nops    the number of building operations so far                      *)
(*   origin  the root `user` was created from by Config(root), 0 when it   *)
(*           was created otherwise                                         *)
(***************************************************************************)
VARIABLES heap, trees, err, ret, last, pre, nops, origin

vars == <<heap, trees, err, ret, last, pre, nops, origin>>

Trees == {"config", "user"}

Bound == {t \in Trees : trees[t] # 0}

RECURSIVE Resolve(_, _, _)
\* the address of <root>.<path>, 0 when the path names no section
Resolve(h, a, path) ==
    IF a = 0 THEN 0
    ELSE IF path = <<>> THEN a
    ELSE IF Has(h[a].items, Head(path)) /\ Get(h[a].items, Head(path)).t = "Config"
         THEN Resolve(h, Get(h[a].items, Head(path)).addr, Tail(path))
         ELSE 0

NoReturn == [kind |-> "none"]

ObserveOps == {"to_dict", "get_value", "check_config"}

\* to_dict, get_value and check_config change no Config: what can follow one
\* of them is what can follow the state before it, so a behaviour is a
\* sequence of building operations that may end with one inspection
Building == last.op \notin ObserveOps /\ nops < MaxOps
Inspecting == last.op \notin ObserveOps

\* the heap after a setUp of the tests has run on heap h: a new root with
\* the section "test" declared by `body`, and on it the sub-section "sub"
\* when `subs` holds its declaration
SetUpOn(h, body, subs) ==
    LET root == Len(h) + 1
        h1 == add_config(Append(h, Config_empty), root, EvalBody(body).fields,
                         "test", TRUE).heap
    IN IF subs = <<>> THEN h1
       ELSE add_config(h1, root + 1, EvalBody(subs[1]).fields, "sub", TRUE).heap

SetUp(body, subs) == SetUpOn(<< >>, body, subs)

\* the class bodies that raise nothing
Valid(bodies) == {b \in bodies : EvalBody(b).err = NoError}

\* the state after a setUp
InitSetUp(roots, subs) ==
    /\ \E body \in Valid(roots), sub \in {<<>>} \cup {<<b>> : b \in Valid(subs)} :
          heap = SetUp(body, sub)
    /\ trees = [t \in Trees |-> IF t = "config" THEN 1 ELSE 0]
    /\ err = NoError
    /\ ret = NoReturn
    /\ last = [op |-> "setUp"]
    /\ pre = << >>
    /\ nops = 0
    /\ origin = 0

\* user = Config()
NewConfig ==
    /\ Building
    /\ heap' = Append(heap, Config_empty)
    /\ trees' = [trees EXCEPT !["user"] = Len(heap) + 1]
    /\ err' = NoError
    /\ ret' = NoReturn
    /\ last' = [op |-> "Config"]
    /\ pre' = heap
    /\ nops' = nops + 1
    /\ origin' = 0

\* user = Config(t)
Derive(t) ==
    /\ Building
    /\ trees[t] # 0
    /\ heap' = Append(heap, Config_init(heap[trees[t]]))
    /\ trees' = [trees EXCEPT !["user"] = Len(heap) + 1]
    /\ err' = NoError
    /\ ret' = NoReturn
    /\ last' = [op |-> "derive", t |-> t, base |-> trees[t]]
    /\ pre' = heap
    /\ nops' = nops + 1
    /\ origin' = trees[t]

\* @t.<path>(name, check) class ...: body
Register(t, path, name, body, check) ==
    /\ Building
    /\ Resolve(heap, trees[t], path) # 0
    /\ LET self == Resolve(heap, trees[t], path)
           ev == EvalBody(body)
           r == add_config(heap, self, ev.fields, name, check)
       IN /\ heap' = IF ev.err # NoError THEN heap ELSE r.heap
          /\ err' = IF ev.err # NoError THEN ev.err ELSE r.err
          /\ last' = [op |-> "add_config", t |-> t, path |-> path, self |-> self,
                      name |-> name, body |-> body, check |-> check,
                      called |-> ev.err = NoError,
                      override |-> Has(heap[self].items, name)]
    /\ ret' = NoReturn
    /\ pre' = heap
    /\ nops' = nops + 1
    /\ UNCHANGED <<trees, origin>>

\* user = t.update_config(u)
UpdateConfig(t, u) ==
    /\ Building
    /\ trees[t] # 0 /\ trees[u] # 0
    /\ LET r == update_config(heap, trees[t], heap[trees[u]])
       IN /\ heap' = IF r.err # NoError THEN Unwind(r.heap, heap) ELSE r.heap
          /\ trees' = IF r.err # NoError THEN trees ELSE [trees EXCEPT !["user"] = r.addr]
          /\ origin' = IF r.err # NoError THEN origin ELSE 0
          /\ err' = r.err
    /\ ret' = NoReturn
    /\ last' = [op |-> "update_config", t |-> t, u |-> u,
                self |-> trees[t], other |-> trees[u], origin |-> origin]
    /\ pre' = heap
    /\ nops' = nops + 1

\* t.<path>.key = value  (Config.__setattr__)
SetAttr(t, path, key, value) ==
    /\ Building
    /\ Resolve(heap, trees[t], path) # 0
    /\ heap' = SetItem(heap, Resolve(heap, trees[t], path), key, value)
    /\ err' = NoError
    /\ ret' = NoReturn
    /\ last' = [op |-> "setattr", t |-> t, path |-> path, key |-> key, value |-> value]
    /\ pre' = heap
    /\ nops' = nops + 1
    /\ UNCHANGED <<trees, origin>>

\* t.<path>.to_dict(check)
ToDict(t, path, check) ==
    /\ Inspecting
    /\ Resolve(heap, trees[t], path) # 0
    /\ LET r == to_dict(heap, heap[Resolve(heap, trees[t], path)], check)
       IN /\ err' = r.err
          /\ ret' = [kind |-> "dict", d |-> r.d]
    /\ last' = [op |-> "to_dict", t |-> t, path |-> path, check |-> check]
    /\ pre' = heap
    /\ UNCHANGED <<heap, trees, nops, origin>>

\* t.<path>.get_value(key, check)
GetValue(t, path, key, check) ==
    /\ Inspecting
    /\ Resolve(heap, trees[t], path) # 0
    /\ LET r == get_value(heap, heap[Resolve(heap, trees[t], path)], key, check)
       IN /\ err' = r.err
          /\ ret' = [kind |-> "value", val |-> r.val]
    /\ last' = [op |-> "get_value", t |-> t, path |-> path, key |-> key, check |-> check]
    /\ pre' = heap
    /\ UNCHANGED <<heap, trees, nops, origin>>

\* t.<path>.check_config()
CheckConfig(t, path) ==
    /\ Inspecting
    /\ Resolve(heap, trees[t], path) # 0
    /\ err' = IF check_config(heap, heap[Resolve(heap, trees[t], path)])
              THEN RequiredError ELSE NoError
    /\ ret' = NoReturn
    /\ last' = [op |-> "check_config", t |-> t, path |-> path]
    /\ pre' = heap
    /\ UNCHANGED <<heap, trees, nops, origin>>

(***************************************************************************)
(* The inputs of the operations.  The base declares (a registration under  *)
(* a new name, with a declaration of the tests); overrides and assignments *)
(* are made on the tree `user`.                                            *)
(***************************************************************************)
\* the registrations @t.<path>(name): [t, path, name]
Targets == {<<t, <<>>, "test">> : t \in Trees} \cup {<<t, <<"test">>, "sub">> : t \in Trees}

\* whether @t.<path>(name) overrides an existing section
IsOverride(tg) ==
    LET self == Resolve(heap, trees[tg[1]], tg[2])
    IN self # 0 /\ Has(heap[self].items, tg[3])

BodiesFor(tg, roots, subs) ==
    LET self == Resolve(heap, trees[tg[1]], tg[2])
    IN IF self = 0 THEN {}
       ELSE IF Has(heap[self].items, tg[3])
            THEN IF tg[1] = "user" /\ Get(heap[self].items, tg[3]).t = "Config"
                 THEN Overrides(heap[Get(heap[self].items, tg[3]).addr])
                 ELSE {}
            ELSE IF tg[3] = "test" THEN roots ELSE subs

\* add_config reads check only when the section exists
ChecksFor(tg) == IF IsOverride(tg) THEN BOOLEAN ELSE {TRUE}

\* the keys an attribute access or assignment on t.<path> names
KeysFor(t, path) ==
    LET a == Resolve(heap, trees[t], path)
    IN IF a = 0 THEN {} ELSE KeysOf(heap[a].items) \cup NewKeys

Init == InitSetUp(RootClasses, SubClasses)

Next ==
    \/ NewConfig
    \/ \E t \in Trees : Derive(t)
    \/ \E tg \in Targets :
          \E body \in BodiesFor(tg, RootClasses, SubClasses), check \in ChecksFor(tg) :
              Register(tg[1], tg[2], tg[3], body, check)
    \/ \E t, u \in Trees : UpdateConfig(t, u)
    \/ \E key \in KeysFor("user", <<"test">>), value \in OverrideValues :
          SetAttr("user", <<"test">>, key, value)

Spec == Init /\ [][Next]_vars

(***************************************************************************)
(* The inspection scenario of the tests: a base is set up, a user tree is  *)
(* derived from it, one override is registered on the user tree, and a     *)
(* tree is inspected with to_dict, get_value or check_config.              *)
(***************************************************************************)
InspectClasses == {TestCondition, TestRequired, TestChoices(required)}

\* the override bodies of TestCondition.test_logic, for every pair of
\* members of the choice list
LogicOverrides ==
    {<< Field("variable1", Plain(v1), FALSE), Field("variable2", Plain(v2), FALSE) >> :
        v1 \in C, v2 \in C}

\* the override bodies of TestCondition.setUp (user_config1): variable1 and
\* the payload of one Condition
ConditionOverrides ==
    {<< Field("variable1", Plain(v1), FALSE), Field(k, payload, FALSE) >> :
        v1 \in C,
        k \in {"conditional_variable1", "conditional_variable2", "conditional_variable3"},
        payload \in {required, Plain(2)}}

InspectOverrides ==
    IF last.op # "derive" THEN {}
    ELSE LET section == heap[Resolve(heap, trees["user"], <<"test">>)]
         IN Overrides(section)
              \cup (IF {"variable1", "variable2"} \subseteq KeysOf(section.items)
                    THEN LogicOverrides ELSE {})
              \cup (IF "conditional_variable1" \in KeysOf(section.items)
                    THEN ConditionOverrides ELSE {})

InitInspect == InitSetUp(InspectClasses, SubClasses)

NextInspect ==
    \/ trees["user"] = 0 /\ Derive("config")
    \/ \E body \in InspectOverrides, check \in BOOLEAN :
          Register("user", <<>>, "test", body, check)
    \/ \E t \in Bound, path \in {<<>>, <<"test">>}, check \in BOOLEAN :
          ToDict(t, path, check)
    \/ \E t \in Bound, check \in BOOLEAN :
          \E key \in KeysFor(t, <<"test">>) : GetValue(t, <<"test">>, key, check)
    \/ \E t \in Bound, path \in {<<>>, <<"test">>} : CheckConfig(t, path)

SpecInspect == InitInspect /\ [][NextInspect]_vars

(***************************************************************************)
(* The merge scenario of TestConfig.test_update: two trees are set up, the *)
(* second may be edited by an attribute assignment, and trees are merged.  *)
(***************************************************************************)
MergeBases == {TestConfig, TestChoices(required)}
MergeDeltas == {TestUpdate, TestConfig}
MergeSubs == {SubSection(required), SubSection(Plain(1))}

InitMerge ==
    /\ \E a \in MergeBases, b \in MergeDeltas,
          sa \in {<<>>} \cup {<<x>> : x \in MergeSubs},
          sb \in {<<>>, <<SubSection(Plain(1))>>} :
          /\ heap = SetUpOn(SetUp(a, sa), b, sb)
          /\ trees = [t \in Trees |-> IF t = "config" THEN 1 ELSE Len(SetUp(a, sa)) + 1]
    /\ err = NoError
    /\ ret = NoReturn
    /\ last = [op |-> "setUp"]
    /\ pre = << >>
    /\ nops = 0
    /\ origin = 0

NextMerge ==
    \/ \E t, u \in Trees : UpdateConfig(t, u)
    \/ \E key \in KeysFor("user", <<"test">>), value \in OverrideValues :
          last.op = "setUp" /\ SetAttr("user", <<"test">>, key, value)

SpecMerge == InitMerge /\ [][NextMerge]_vars

(***************************************************************************)
(* The chain scenario: a base is set up and the user tree is derived from  *)
(* it, as every test begins; then the user tree registers overrides of the *)
(* section again and again, or is replaced by a tree derived from itself.  *)
(***************************************************************************)
ChainClasses == {TestChoices(required), TestConfig}

InitChain ==
    /\ \E body \in Valid(ChainClasses) :
          /\ pre = SetUp(body, <<>>)
          /\ heap = Append(SetUp(body, <<>>), Config_init(SetUp(body, <<>>)[1]))
          /\ trees = [t \in Trees |-> IF t = "config" THEN 1
                                      ELSE Len(SetUp(body, <<>>)) + 1]
    /\ err = NoError
    /\ ret = NoReturn
    /\ last = [op |-> "derive", t |-> "config", base |-> 1]
    /\ nops = 0
    /\ origin = 1

NextChain ==
    \/ Derive("user")
    \/ \E body \in Overrides(heap[Resolve(heap, trees["user"], <<"test">>)]),
          check \in BOOLEAN :
          Register("user", <<>>, "test", body, check)

SpecChain == InitChain /\ [][NextChain]_vars

(***************************************************************************)
(* The standalone prototype registry of src/config.py.  Its Config is a    *)
(* defaultdict without _name, annotations, Choices or Condition: a node on *)
(* the heap is [items |-> its entries].  register(name) is the only        *)
(* operation modelled; the node it is called on is config or a section.    *)
(***************************************************************************)
\* Config(): the empty registry
Registry_empty == [items |-> << >>]

\* bool(self.get(name)): a missing name is None, a section is true when it
\* has an entry, a number when it is not 0
Registry_registered(h, self, name) ==
    /\ Has(h[self].items, name)
    /\ LET v == Get(h[self].items, name)
       IN CASE v.t = "Config" -> h[v.addr].items # << >>
            [] v.t = "plain" -> v.v # 0
            [] OTHER -> TRUE

\* dataclass(config_class)(): the annotated fields with their defaults
Registry_dataclass(fields) ==
    LET kept == SelectSeq(fields, LAMBDA f : f.ann)
    IN [items |-> [i \in 1..Len(kept) |-> [k |-> kept[i].k, v |-> kept[i].v]]]

\* Config.register(name)(wrapped_class) on the node at address self.
\* Returns [heap, err].
Registry_register(h, self, name, fields) ==
    IF ~Registry_registered(h, self, name)
    THEN [heap |-> SetItem(Append(h, Registry_dataclass(fields)), self, name,
                           ConfigRef(Len(h) + 1)),
          err |-> NoError]
    ELSE [heap |-> h, err |-> AttributeError]

\* the class bodies registered: no field, a field without annotation, and
\* annotated fields as in classes A .. F of the prototype
RegistryClasses ==
    { << >>,
      << Field("x", Plain(1), FALSE) >>,
      << Field("a", Plain(5), TRUE) >>,
      << Field("b", Plain(30), TRUE), Field("d", Plain(0), TRUE) >> }

RegistryNames == {"optimizer", "policy", "another"}

\* the nodes register is called on: config and config.policy
RegistryPaths == {<<>>, <<"policy">>}

InitRegistry ==
    /\ heap = << Registry_empty >>
    /\ trees = [t \in Trees |-> IF t = "config" THEN 1 ELSE 0]
    /\ err = NoError
    /\ ret = NoReturn
    /\ last = [op |-> "Config"]
    /\ pre = << >>
    /\ nops = 0
    /\ origin = 0

\* @config.<path>.register(name) class ...: body
RegistryRegister(path, name, body) ==
    /\ nops < MaxOps
    /\ Resolve(heap, trees["config"], path) # 0
    /\ LET self == Resolve(heap, trees["config"], path)
           r == Registry_register(heap, self, name, body)
       IN /\ heap' = r.heap
          /\ err' = r.err
          /\ last' = [op |-> "register", path |-> path, self |-> self,
                      name |-> name, body |-> body]
    /\ ret' = NoReturn
    /\ pre' = heap
    /\ nops' = nops + 1
    /\ UNCHANGED <<trees, origin>>

NextRegistry ==
    \E path \in RegistryPaths, name \in RegistryNames, body \in RegistryClasses :
        RegistryRegister(path, name, body)

SpecRegistry == InitRegistry /\ [][NextRegistry]_vars

(***************************************************************************)
(* Vocabulary of the properties.                                           *)
(***************************************************************************)
RECURSIVE Deep(_, _)
\* the tree below address a, unfolded: what a reader of the tree can see
Deep(h, a) ==
    [name |-> h[a].name, ann |-> h[a].ann,
     items |-> [i \in 1..Len(h[a].items) |->
                  IF h[a].items[i].v.t = "Config"
                  THEN [k |-> h[a].items[i].k, v |-> Deep(h, h[a].items[i].v.addr)]
                  ELSE h[a].items[i]]]

RECURSIVE Resolved(_, _)
\* the values the tree below a resolves to: a Choices resolves to its data
Resolved(h, a) ==
    [k \in KeysOf(h[a].items) |->
        LET v == Get(h[a].items, k)
        IN CASE v.t = "Config" -> [t |-> "section", d |-> Resolved(h, v.addr)]
             [] v.t = "Choices" -> v.data
             [] OTHER -> v]

\* the last operation was an override registration whose class body ran
IsOverrideCall == last.op = "add_config" /\ last.override /\ last.called

\* the section the last override registration was asked to override
OverriddenSection == Get(pre[last.self].items, last.name).addr

\* the section the last registration attached
RegisteredSection == Get(heap[last.self].items, last.name).addr

\* the override class keeps field f: f is annotated there or in the section
Kept(section, f) == f.ann \/ f.k \in section.ann

\* the user tree was created by Config(config) and the section the last
\* registration was asked to override is the one the base holds
OverridesBase ==
    /\ last.t = "user" /\ origin = trees["config"]
    /\ Resolve(pre, trees["config"], Append(last.path, last.name)) = OverriddenSection

(***************************************************************************)
(* C1.  On a derived tree whose section holds a field declared Choices(C), *)
(* an override registration that sets the field to a value that is not a   *)
(* member of C fails with InvalidChoiceError, and afterwards the base tree *)
(* is what it was: the field is still the Choices with its default.        *)
(***************************************************************************)
C1_InvalidOverrideRejected ==
    (IsOverrideCall /\ last.t = "user") =>
        \A i \in 1..Len(last.body) :
            LET f == last.body[i]
                section == pre[OverriddenSection]
            IN (/\ Has(section.items, f.k)
                /\ Get(section.items, f.k).t = "Choices"
                /\ Kept(section, f)
                /\ f.v \notin {Plain(c) : c \in Get(section.items, f.k).choices})
               => /\ err = InvalidChoiceError
                  /\ Deep(heap, trees["config"]) = Deep(pre, trees["config"])
                  /\ Get(heap[OverriddenSection].items, f.k) = Get(section.items, f.k)

\* an override of the base's section with the non-member 4 was rejected
C1_Witness ==
    /\ IsOverrideCall /\ OverridesBase
    /\ last.body # <<>> /\ last.body[1].v = Plain(Invalid)
    /\ Has(pre[OverriddenSection].items, last.body[1].k)
    /\ Get(pre[OverriddenSection].items, last.body[1].k).t = "Choices"
    /\ err = InvalidChoiceError

(***************************************************************************)
(* What a section resolves to, stated without the code's evaluators: a     *)
(* valuation maps the keys of a section to the values they resolve to.     *)
(***************************************************************************)
\* the valuation of a section: a Choices resolves to its default
Valuation(config) ==
    [k \in KeysOf(config.items) |->
        LET v == Get(config.items, k) IN IF v.t = "Choices" THEN v.data ELSE v]

RECURSIVE Truth(_, _)
\* the truth of predicate c under valuation val
Truth(c, val) ==
    CASE c.op = "eq" -> val[c.ch.name] = Plain(c.other)
      [] c.op = "ne" -> val[c.ch.name] # Plain(c.other)
      [] c.op = "and" -> Truth(c.l, val) /\ Truth(c.r, val)
      [] c.op = "or" -> Truth(c.l, val) \/ Truth(c.r, val)
      [] c.op = "not" -> ~Truth(c.l, val)

RECURSIVE UnresolvedIn(_, _)
\* the section, or a section nested in it, has an unresolved entry: a bare
\* required, a Choices without default, or a Condition whose payload is
\* required and whose predicate holds in its own section
UnresolvedIn(h, config) ==
    \E i \in 1..Len(config.items) :
        LET v == config.items[i].v
        IN \/ v = required
           \/ v.t = "Choices" /\ v.data = required
           \/ v.t = "Condition" /\ v.data = required /\ Truth(v.comp, Valuation(config))
           \/ v.t = "Config" /\ UnresolvedIn(h, h[v.addr])

\* the fields of a class body that an override of section applies
Applied(section, body) == {i \in 1..Len(body) : Kept(section, body[i])}

\* the base section with the override values applied, as a valuation: a
\* field the override names has the override's value (as the payload, when
\* the base declares a Condition), every other key what the base holds
MergedValuation(section, body) ==
    [k \in KeysOf(section.items) \cup {body[i].k : i \in Applied(section, body)} |->
        IF \E i \in Applied(section, body) : body[i].k = k
        THEN LET v == body[CHOOSE i \in Applied(section, body) : body[i].k = k].v
             IN IF Has(section.items, k) /\ Get(section.items, k).t = "Condition"
                THEN Condition_init(v, Get(section.items, k).comp)
                ELSE v
        ELSE Valuation(section)[k]]

\* the merged section still contains an unresolved field
MergedUnresolved(h, section, body) ==
    LET val == MergedValuation(section, body)
    IN \E k \in DOMAIN val :
          \/ val[k] = required
          \/ val[k].t = "Condition" /\ val[k].data = required /\ Truth(val[k].comp, val)
          \/ val[k].t = "Config" /\ UnresolvedIn(h, h[val[k].addr])

(***************************************************************************)
(* C2.  An override registration on a derived tree whose merge succeeds    *)
(* raises RequiredError if and only if validation is enabled and the       *)
(* merged section (the base section with the override values applied)      *)
(* still contains an unresolved field; with validation disabled it never   *)
(* raises RequiredError.                                                   *)
(***************************************************************************)
C2_RequiredErrorIffUnresolved ==
    (IsOverrideCall /\ last.t = "user" /\ err \in {NoError, RequiredError}) =>
        /\ err = RequiredError <=>
              (last.check /\ MergedUnresolved(pre, pre[OverriddenSection], last.body))
        /\ ~last.check => err = NoError

\* a validated override of the base's section left a field unresolved
C2_Witness ==
    /\ IsOverrideCall /\ OverridesBase
    /\ last.check /\ last.body # <<>>
    /\ err = RequiredError

\* an override with validation disabled registered an unresolved section
C2_WitnessUnchecked ==
    /\ IsOverrideCall /\ OverridesBase
    /\ ~last.check /\ err = NoError
    /\ UnresolvedIn(heap, heap[RegisteredSection])

(***************************************************************************)
(* C6.  Choices(C) without a default holds `required` as its data;         *)
(* Choices(C, default=d) with d in C holds d; with a default that is not   *)
(* in C the construction raises InvalidChoiceError in the class body, so   *)
(* the decorator never runs and no tree ever holds such a field.           *)
(***************************************************************************)
C6_ChoicesConstruction ==
    /\ \A a \in 1..Len(heap) : \A i \in 1..Len(heap[a].items) :
          LET v == heap[a].items[i].v
          IN v.t = "Choices" =>
                v.data = required \/ (v.data.t = "plain" /\ v.data.v \in v.choices)
    /\ last.op = "add_config" =>
          \A i \in 1..Len(last.body) :
              LET f == last.body[i]
              IN f.v.t = "Choices()" =>
                    IF f.v.default # required
                       /\ f.v.default \notin {Plain(c) : c \in f.v.choices}
                    THEN /\ err = InvalidChoiceError
                         /\ ~last.called
                         /\ heap = pre
                    ELSE (err = NoError /\ f.ann) =>
                            LET v == Get(heap[RegisteredSection].items, f.k)
                            IN /\ v.t = "Choices"
                               /\ v.choices = f.v.choices
                               /\ v.data = f.v.default

\* a declaration Choices(C, default=4) raised before the decorator ran
C6_Witness ==
    /\ last.op = "add_config" /\ ~last.called
    /\ err = InvalidChoiceError
    /\ \E i \in 1..Len(last.body) :
          /\ last.body[i].v.t = "Choices()"
          /\ last.body[i].v.default = Plain(Invalid)

\* a declaration Choices(C) without default was registered
C6_WitnessRequired ==
    /\ last.op = "add_config" /\ last.called /\ err = NoError
    /\ \E i \in 1..Len(last.body) :
          /\ last.body[i].v.t = "Choices()"
          /\ last.body[i].v.default = required
          /\ Get(heap[RegisteredSection].items, last.body[i].k).data = required

(***************************************************************************)
(* C7.  After an override registration on a derived tree:                  *)
(*  (a) a field the override does not annotate, on a key the base section  *)
(*      never annotated, is not a member of the resulting section:         *)
(*      attribute access raises AttributeError;                            *)
(*  (b) a field the override introduces with an annotation is a member and *)
(*      resolves to the declared value;                                    *)
(*  (c) every key of the base section the override does not name resolves  *)
(*      to what it resolved to in the base.                                *)
(* C7_AsClaimed states (a) for every such field; C7_UserVariables states   *)
(* it for the fields whose key the base section does not hold already.     *)
(***************************************************************************)
\* (b) and (c)
C7_AnnotatedAndUnnamed ==
    LET section == pre[OverriddenSection]
        result == heap[RegisteredSection]
    IN /\ \A i \in 1..Len(last.body) :
             (last.body[i].ann /\ ~Has(section.items, last.body[i].k)) =>
                 Config_getattr(heap, result, last.body[i].k)
                     = [err |-> NoError, val |-> last.body[i].v]
       /\ \A k \in KeysOf(section.items) \ {last.body[i].k : i \in 1..Len(last.body)} :
             /\ Has(result.items, k)
             /\ Resolved(heap, RegisteredSection)[k] = Resolved(pre, OverriddenSection)[k]

\* (a), whatever the base section holds
C7_Unannotated(keys) ==
    \A i \in 1..Len(last.body) :
        (~last.body[i].ann /\ last.body[i].k \notin pre[OverriddenSection].ann
         /\ last.body[i].k \notin keys) =>
            Config_getattr(heap, heap[RegisteredSection], last.body[i].k).err
                = AttributeError

C7_WitnessAnnotated ==
    /\ IsOverrideCall /\ OverridesBase /\ err = NoError
    /\ last.body # <<>>
    /\ last.body[1].ann
    /\ last.body[1].k \in NewKeys
    /\ Has(heap[RegisteredSection].items, last.body[1].k)

(***************************************************************************)
(* C9.  After user = Config(config) no operation on the user tree (an      *)
(* override registration, a merge starting from it, an attribute           *)
(* assignment on one of its sections) changes what the base tree holds at  *)
(* any depth.                                                              *)
(***************************************************************************)
C9_BaseIndependent ==
    LET onDerived ==
            \/ last.op = "add_config" /\ last.override
                  /\ last.t = "user" /\ origin = trees["config"]
            \/ last.op = "setattr"
                  /\ last.t = "user" /\ origin = trees["config"]
            \/ last.op = "update_config"
                  /\ last.t = "user" /\ last.origin = trees["config"]
    IN onDerived => Deep(heap, trees["config"]) = Deep(pre, trees["config"])

(***************************************************************************)
(* C10.  An override registration that fails with InvalidChoiceError or    *)
(* RequiredError leaves the node it was called on as it was: the section   *)
(* reference is not replaced and the prior section holds, at every depth,  *)
(* what it held before the call.                                           *)
(***************************************************************************)
C10_FailedOverrideNoEffect ==
    (last.op = "add_config" /\ last.override
     /\ err \in {InvalidChoiceError, RequiredError}) =>
        /\ Get(heap[last.self].items, last.name) = Get(pre[last.self].items, last.name)
        /\ Deep(heap, last.self) = Deep(pre, last.self)

(***************************************************************************)
(* The node and the entry the last inspection looked at.                   *)
(***************************************************************************)
Inspected == heap[Resolve(heap, trees[last.t], last.path)]

\* the section "test" the last to_dict flattened, and its part of the result
FlattenedSection == heap[Resolve(heap, trees[last.t], <<"test">>)]
FlattenedDict == IF last.path = <<>> THEN ret.d["test"].d ELSE ret.d

\* the entry v of section config is unresolved
UnresolvedEntry(h, config, v) ==
    \/ v = required
    \/ v.t = "Choices" /\ v.data = required
    \/ v.t = "Condition" /\ v.data = required /\ Truth(v.comp, Valuation(config))
    \/ v.t = "Config" /\ UnresolvedIn(h, h[v.addr])

(***************************************************************************)
(* C3.  Validation raises RequiredError exactly when what it validates is  *)
(* unresolved: check_config and to_dict(check=True) validate the node and  *)
(* every section nested in it, get_value(key, check=True) validates the    *)
(* entry it fetches.  Unresolved is a bare `required`, a Choices whose     *)
(* data is `required`, or a Condition whose data is `required` and whose   *)
(* predicate holds in its own section; a Condition whose predicate is      *)
(* false never raises.  Without check nothing raises RequiredError.        *)
(***************************************************************************)
C3_RequiredErrorExactlyWhenUnresolved ==
    /\ last.op = "check_config" =>
          (err = RequiredError <=> UnresolvedIn(heap, Inspected))
    /\ last.op = "to_dict" =>
          (err = RequiredError <=> (last.check /\ UnresolvedIn(heap, Inspected)))
    /\ (last.op = "get_value" /\ Has(Inspected.items, last.key)) =>
          (err = RequiredError <=>
              (last.check
               /\ UnresolvedEntry(heap, Inspected, Get(Inspected.items, last.key))))

\* a Condition with required data and a false predicate passed validation
C3_Witness ==
    /\ last.op = "get_value" /\ last.check /\ err = NoError
    /\ Has(Inspected.items, last.key)
    /\ Get(Inspected.items, last.key).t = "Condition"
    /\ Get(Inspected.items, last.key).data = required

\* a field that is unresolved in the base passed validation in the user
\* tree, where an override gave it a value
C3_WitnessOverridden ==
    /\ last.op = "get_value" /\ last.check /\ err = NoError
    /\ last.t = "user" /\ last.path = <<"test">>
    /\ Has(Inspected.items, last.key)
    /\ LET base == heap[Resolve(heap, trees["config"], <<"test">>)]
       IN /\ Has(base.items, last.key)
          /\ UnresolvedEntry(heap, base, Get(base.items, last.key))

\* validation of a whole tree raised RequiredError
C3_WitnessRaised ==
    /\ last.op = "to_dict" /\ last.check /\ last.path = <<>>
    /\ err = RequiredError

(***************************************************************************)
(* C4.  to_dict of a section contains the key of a Condition field if and  *)
(* only if the predicate of the field is true in that section, where a     *)
(* sibling the predicate refers to resolves to the value the section holds *)
(* for it (the override's value, or the default of the Choices); a key     *)
(* whose predicate is false is absent from the result.                     *)
(***************************************************************************)
C4_ConditionKeyIffPredicate ==
    (last.op = "to_dict" /\ err = NoError) =>
        \A i \in 1..Len(FlattenedSection.items) :
            LET k == FlattenedSection.items[i].k
                v == FlattenedSection.items[i].v
            IN v.t = "Condition" =>
                  /\ k \in DOMAIN FlattenedDict
                        <=> Truth(v.comp, Valuation(FlattenedSection))
                  /\ k \in DOMAIN FlattenedDict => FlattenedDict[k] = v.data

\* the Condition on variable1 == 1 is in the result for the user tree
\* whose override sets variable1 = 1; the default of variable1 is 3
C4_Witness ==
    /\ last.op = "to_dict" /\ err = NoError /\ last.t = "user"
    /\ Has(FlattenedSection.items, "conditional_variable1")
    /\ Get(FlattenedSection.items, "variable1") = Plain(1)
    /\ "conditional_variable1" \in DOMAIN FlattenedDict

\* the same declaration is absent from the result for the base
C4_WitnessAbsent ==
    /\ last.op = "to_dict" /\ err = NoError /\ last.t = "config"
    /\ Has(FlattenedSection.items, "conditional_variable1")
    /\ "conditional_variable1" \notin DOMAIN FlattenedDict

(***************************************************************************)
(* C5.  In a section of TestCondition whose variable1 and variable2 were   *)
(* set by an override to members v1, v2 of the choice list, with           *)
(* p = (v1 = 3) and q = (v2 = 1): the field guarded by p & q is in to_dict *)
(* iff p and q, the one guarded by p | q iff p or q, the one guarded by ~p *)
(* iff not p; and the fields guarded by the operands alone, variable1 == 3 *)
(* and variable1 == 1, are present iff the operand holds.                  *)
(***************************************************************************)
C5_Combinators ==
    (/\ last.op = "to_dict" /\ err = NoError
     /\ Has(FlattenedSection.items, "conditional_variable4")
     /\ Get(FlattenedSection.items, "variable1") \in {Plain(c) : c \in C}
     /\ Get(FlattenedSection.items, "variable2") \in {Plain(c) : c \in C}) =>
        LET p == Get(FlattenedSection.items, "variable1") = Plain(3)
            q == Get(FlattenedSection.items, "variable2") = Plain(1)
            present(k) == k \in DOMAIN FlattenedDict
        IN /\ present("conditional_variable4") <=> (p /\ q)
           /\ present("conditional_variable5") <=> (p \/ q)
           /\ present("conditional_variable6") <=> ~p
           /\ present("conditional_variable3") <=> p
           /\ present("conditional_variable1")
                 <=> Get(FlattenedSection.items, "variable1") = Plain(1)

\* test_logic, first case: variable1 = 3, variable2 = 1
C5_Witness ==
    /\ last.op = "to_dict" /\ err = NoError /\ last.t = "user"
    /\ Has(FlattenedSection.items, "conditional_variable4")
    /\ Get(FlattenedSection.items, "variable1") = Plain(3)
    /\ Get(FlattenedSection.items, "variable2") = Plain(1)
    /\ "conditional_variable4" \in DOMAIN FlattenedDict
    /\ "conditional_variable6" \notin DOMAIN FlattenedDict

\* test_logic, third case: variable1 = 1, variable2 = 3
C5_WitnessNeither ==
    /\ last.op = "to_dict" /\ err = NoError /\ last.t = "user"
    /\ Has(FlattenedSection.items, "conditional_variable4")
    /\ Get(FlattenedSection.items, "variable1") = Plain(1)
    /\ Get(FlattenedSection.items, "variable2") = Plain(3)
    /\ "conditional_variable5" \notin DOMAIN FlattenedDict
    /\ "conditional_variable6" \in DOMAIN FlattenedDict

(***************************************************************************)
(* C8.  After receiver.update_config(other) has returned, at every depth   *)
(* of the result:                                                          *)
(*  - a key that held a Choices in the receiver and that `other` does not  *)
(*    name holds the default of the Choices as a plain value;              *)
(*  - a key that held a plain value in the receiver and that `other` names *)
(*    holds the value of `other`;                                          *)
(*  - a Choices that only `other` introduces is the Choices object still,  *)
(*    and so is every Choices of a section that only `other` introduces.   *)
(* r is a section of the result, s the section of the receiver it was      *)
(* merged from, o the section of `other` merged into it (0: none).         *)
(***************************************************************************)
RECURSIVE MergedAsClaimed(_, _, _)
MergedAsClaimed(r, s, o) ==
    /\ \A k \in KeysOf(pre[s].items) :
          LET sv == Get(pre[s].items, k)
              named == o # 0 /\ Has(pre[o].items, k)
              rv == Get(heap[r].items, k)
          IN /\ Has(heap[r].items, k)
             /\ (sv.t = "Choices" /\ ~named) => (rv = sv.data /\ rv.t # "Choices")
             /\ (sv.t \in {"plain", "required"} /\ named) => rv = Get(pre[o].items, k)
             /\ sv.t = "Config" =>
                   /\ rv.t = "Config"
                   /\ MergedAsClaimed(rv.addr, sv.addr,
                         IF named /\ Get(pre[o].items, k).t = "Config"
                         THEN Get(pre[o].items, k).addr ELSE 0)
    /\ o # 0 =>
          \A k \in KeysOf(pre[o].items) \ KeysOf(pre[s].items) :
              LET ov == Get(pre[o].items, k)
              IN /\ Has(heap[r].items, k)
                 /\ ov.t = "Choices" => Get(heap[r].items, k) = ov
                 /\ ov.t = "Config" =>
                       /\ Get(heap[r].items, k) = ov
                       /\ Deep(heap, ov.addr) = Deep(pre, ov.addr)

C8_MergeAtEveryDepth ==
    (last.op = "update_config" /\ err = NoError) =>
        MergedAsClaimed(trees["user"], last.self, last.other)

\* test_update: choice_variable, which the second tree does not name, is
\* the plain default 1 and choice_variable2, which only the second tree
\* declares, is a Choices
C8_Witness ==
    /\ last.op = "update_config" /\ err = NoError
    /\ LET test == heap[Resolve(heap, trees["user"], <<"test">>)]
       IN /\ Has(test.items, "choice_variable")
          /\ Get(test.items, "choice_variable") = Plain(1)
          /\ Has(test.items, "choice_variable2")
          /\ Get(test.items, "choice_variable2").t = "Choices"
          /\ Get(test.items, "variable") = Plain(2)

\* a Choices of a nested section the second tree does not name was collapsed
C8_WitnessNested ==
    /\ last.op = "update_config" /\ err = NoError
    /\ Resolve(pre, last.self, <<"test", "sub">>) # 0
    /\ Resolve(pre, last.other, <<"test", "sub">>) = 0
    /\ Get(pre[Resolve(pre, last.self, <<"test", "sub">>)].items, "choice_variable").t
          = "Choices"
    /\ Get(heap[Resolve(heap, trees["user"], <<"test", "sub">>)].items, "choice_variable")
          = Plain(1)

(***************************************************************************)
(* C11.  An override that names a field the base section declares as a     *)
(* Condition yields, in the merged section, a Condition whose payload is   *)
(* the override's value and whose predicate is the base's; a Condition the *)
(* override does not name keeps its payload and predicate.  In to_dict of  *)
(* the user tree the field is then present, with the payload the section   *)
(* holds, exactly when the base's predicate is true in the user's section. *)
(***************************************************************************)
C11_ConditionPayloadOverridden ==
    /\ (IsOverrideCall /\ last.t = "user" /\ err = NoError) =>
          \A k \in KeysOf(pre[OverriddenSection].items) :
              LET b == Get(pre[OverriddenSection].items, k)
                  named == {i \in 1..Len(last.body) : last.body[i].k = k}
              IN b.t = "Condition" =>
                    Get(heap[RegisteredSection].items, k) =
                        IF named = {} THEN b
                        ELSE Condition_init(last.body[CHOOSE i \in named : TRUE].v, b.comp)
    /\ (last.op = "to_dict" /\ err = NoError /\ last.t = "user") =>
          LET base == heap[Resolve(heap, trees["config"], <<"test">>)]
          IN \A k \in KeysOf(base.items) :
                Get(base.items, k).t = "Condition" =>
                    /\ Get(FlattenedSection.items, k).t = "Condition"
                    /\ k \in DOMAIN FlattenedDict
                          <=> Truth(Get(base.items, k).comp, Valuation(FlattenedSection))
                    /\ k \in DOMAIN FlattenedDict
                          => FlattenedDict[k] = Get(FlattenedSection.items, k).data

\* test_in: the override set variable1 = 1 and the payload of
\* conditional_variable1 (variable1 == 1, required in the base) to 2
C11_Witness ==
    /\ last.op = "to_dict" /\ err = NoError /\ last.t = "user"
    /\ Has(FlattenedSection.items, "conditional_variable1")
    /\ Get(FlattenedSection.items, "variable1") = Plain(1)
    /\ Get(heap[Resolve(heap, trees["config"], <<"test">>)].items,
           "conditional_variable1").data = required
    /\ "conditional_variable1" \in DOMAIN FlattenedDict
    /\ FlattenedDict["conditional_variable1"] = Plain(2)

\* the payload was overridden and the predicate of the base is false: the
\* key is absent
C11_WitnessAbsent ==
    /\ last.op = "to_dict" /\ err = NoError /\ last.t = "user"
    /\ Has(FlattenedSection.items, "conditional_variable2")
    /\ Get(FlattenedSection.items, "conditional_variable2").data = Plain(2)
    /\ "conditional_variable2" \notin DOMAIN FlattenedDict

(***************************************************************************)
(* C12.  In the prototype registry a register call whose name an earlier   *)
(* successful register call on the same node has used fails with the       *)
(* name-clash error (AttributeError) and leaves the registered section in  *)
(* place unchanged, whatever fields the earlier definition declared.  The  *)
(* sections of a node are exactly the entries its register calls made.     *)
(***************************************************************************)
C12_ReRegistrationFails ==
    (/\ last.op = "register"
     /\ Has(pre[last.self].items, last.name)
     /\ Get(pre[last.self].items, last.name).t = "Config") =>
        /\ err = AttributeError
        /\ heap = pre

(***************************************************************************)
(* C13.  Along a chain base -> derived -> derived ..., where each tree is  *)
(* Config(previous) or the same tree registers the section again, a field  *)
(* the base declares as Choices(C) holds, in the section of the user tree, *)
(* the Choices, `required`, or a member of C; and an override that sets it *)
(* to a non-member fails with InvalidChoiceError, whatever overrides the   *)
(* chain registered before.                                                *)
(***************************************************************************)
C13_ChoiceMembershipAlongChain ==
    LET base == heap[Resolve(heap, trees["config"], <<"test">>)]
        section == heap[Resolve(heap, trees["user"], <<"test">>)]
        declared == {k \in KeysOf(base.items) : Get(base.items, k).t = "Choices"}
    IN /\ \A k \in declared :
             LET v == Get(section.items, k)
             IN \/ v.t = "Choices"
                \/ v = required
                \/ v \in {Plain(c) : c \in Get(base.items, k).choices}
       /\ (IsOverrideCall /\ last.t = "user") =>
             \A i \in 1..Len(last.body) :
                 (/\ last.body[i].k \in declared
                  /\ last.body[i].v.t = "plain"
                  /\ last.body[i].v.v \notin Get(base.items, last.body[i].k).choices)
                 => err = InvalidChoiceError

====
